---------------------------- MODULE Spec2Model ----------------------------
(***************************************************************************)
(* A model of the expense tracker's entity layer (classes/expense.py,      *)
(* classes/budget.py) and of its CSV/JSON persistence                      *)
(* (classes/data_manager.py).                                              *)
(*                                                                         *)
(* Strings are sequences of one-character tokens, so that strip(), lower() *)
(* and the text conversions of the csv layer are computed, not assumed.    *)
(* "<CR>" and "<LF>" stand for carriage return and line feed.  Amounts are *)
(* whole-valued floats and are modelled as integers.  An Optional value is *)
(* a set with at most one element ({} is None).                            *)
(***************************************************************************)
EXTENDS Integers, Sequences, FiniteSets, TLC

VARIABLES expenses_file,   \* data/expenses.csv : [exists, rows]
          budgets_file,    \* data/budgets.csv  : [exists, rows]
          expenses_json,   \* data/expenses.json: [exists, data]
          budgets_json,    \* data/budgets.json : [exists, data]
          saved_expenses,  \* history: the Expense objects given to save_expense by the caller
          saved_budgets,   \* history: the Budget objects given to save_budget by the caller
          only_saved,      \* TRUE while nothing but save calls filled the store since it was empty
          found,           \* the last query or load call of the DataManager and what it returned
          entity,          \* the last constructor / from_dict / to_dict call and its outcome
          status           \* the last call of a Budget's evaluation methods and its outcome

vars == <<expenses_file, budgets_file, expenses_json, budgets_json,
          saved_expenses, saved_budgets, only_saved, found, entity, status>>

store_vars == <<expenses_file, budgets_file, expenses_json, budgets_json,
                saved_expenses, saved_budgets, only_saved, found>>

----------------------------------------------------------------------------
(* Bounds *)

MaxAmount == 3     \* amounts given to the constructors range over -1..MaxAmount
MaxClock == 2      \* datetime.now() ranges over 1..MaxClock
MaxHash == 1       \* hash(str) ranges over 0..MaxHash
MaxRows == 2       \* the callers stop saving when a CSV file holds MaxRows records

(* Program constants *)

IdModulus == 10000

----------------------------------------------------------------------------
(* str methods *)

Whitespace == {" ", "<CR>", "<LF>"}

UpperChars == <<"A", "D", "E", "F", "H", "I", "K", "L", "M", "N", "O", "R", "T", "U", "W", "Y">>
LowerChars == <<"a", "d", "e", "f", "h", "i", "k", "l", "m", "n", "o", "r", "t", "u", "w", "y">>

LowerChar(c) ==
    IF \E i \in DOMAIN UpperChars : UpperChars[i] = c
    THEN LowerChars[CHOOSE i \in DOMAIN UpperChars : UpperChars[i] = c]
    ELSE c

\* str.lower()
Lower(s) == [i \in DOMAIN s |-> LowerChar(s[i])]

RECURSIVE LStrip(_)
LStrip(s) ==
    IF s # <<>> /\ Head(s) \in Whitespace THEN LStrip(Tail(s)) ELSE s

RECURSIVE RStrip(_)
RStrip(s) ==
    IF s # <<>> /\ s[Len(s)] \in Whitespace THEN RStrip(SubSeq(s, 1, Len(s) - 1)) ELSE s

\* str.strip()
Strip(s) == RStrip(LStrip(s))

DigitChars == <<"0", "1", "2", "3", "4", "5", "6", "7", "8", "9">>

IsDigit(c) == \E i \in DOMAIN DigitChars : DigitChars[i] = c
DigitValue(c) == (CHOOSE i \in DOMAIN DigitChars : DigitChars[i] = c) - 1

\* str(n) / "%d" of a natural number
RECURSIVE NatToStr(_)
NatToStr(n) ==
    IF n < 10 THEN <<DigitChars[n + 1]>>
    ELSE NatToStr(n \div 10) \o <<DigitChars[(n % 10) + 1]>>

\* format(n, "04d") of a natural number
Pad4(n) ==
    LET d == NatToStr(n)
    IN IF Len(d) >= 4 THEN d ELSE [i \in 1 .. (4 - Len(d)) |-> "0"] \o d

Abs(x) == IF x < 0 THEN -x ELSE x

\* str(float) of a whole-valued float, as csv.writer renders an amount: "12.0"
FloatToStr(a) ==
    (IF a < 0 THEN <<"-">> ELSE <<>>) \o NatToStr(Abs(a)) \o <<".", "0">>

RECURSIVE StrToNat(_)
StrToNat(d) ==
    IF d = <<>> THEN 0 ELSE 10 * StrToNat(SubSeq(d, 1, Len(d) - 1)) + DigitValue(d[Len(d)])

\* float(str): the value, or None for the ValueError of a text that is no number.
\* Amounts are whole-valued, so the fraction digits of a number are zeros.
StrToFloat(s) ==
    LET u == Strip(s)
        signed == u # <<>> /\ Head(u) \in {"-", "+"}
        body == IF signed THEN Tail(u) ELSE u
        dots == {i \in DOMAIN body : body[i] = "."}
        dot == IF dots = {} THEN Len(body) + 1 ELSE CHOOSE i \in dots : \A j \in dots : i <= j
        int == SubSeq(body, 1, dot - 1)
        frac == SubSeq(body, dot + 1, Len(body))
    IN IF /\ Len(int) + Len(frac) > 0
          /\ \A i \in DOMAIN int : IsDigit(int[i])
          /\ \A i \in DOMAIN frac : frac[i] = "0"
       THEN {IF Head(u) = "-" THEN -StrToNat(int) ELSE StrToNat(int)}
       ELSE {}

\* str(bool)
BoolToStr(b) == IF b THEN <<"T", "r", "u", "e">> ELSE <<"F", "a", "l", "s", "e">>

\* reading a text file opened without newline='': "\r\n" and "\r" arrive as "\n"
RECURSIVE UniversalNewlines(_)
UniversalNewlines(s) ==
    IF s = <<>> THEN <<>>
    ELSE IF Head(s) = "<CR>"
    THEN IF Len(s) >= 2 /\ s[2] = "<LF>"
         THEN <<"<LF>">> \o UniversalNewlines(SubSeq(s, 3, Len(s)))
         ELSE <<"<LF>">> \o UniversalNewlines(Tail(s))
    ELSE <<Head(s)>> \o UniversalNewlines(Tail(s))

\* datetime.strftime: the rendering of the clock reading t
Timestamp(t) == NatToStr(t)

----------------------------------------------------------------------------
(* Outcomes of a call: a raised exception or a returned object *)

Raise(e) == [err |-> e, obj |-> {}]
Return(o) == [err |-> "", obj |-> {o}]

ExpenseAmountError == "ValueError: Expense amount must be positive"
BudgetAmountError == "ValueError: Budget amount must be positive"
InvalidPeriodError == "ValueError: Invalid period"
KeyError == "KeyError"

\* dict.get(key, default); a dict is a record
Get(data, key, default) == IF key \in DOMAIN data THEN data[key] ELSE default

----------------------------------------------------------------------------
(* classes/expense.py *)

\* Expense._generate_id: "exp_" + timestamp + "_" + hash(name) % 10000
Expense_generate_id(t, h) == <<"exp_">> \o Timestamp(t) \o <<"_">> \o Pad4(h % IdModulus)

\* Expense.__init__ with the test amount < 0: an amount of zero is accepted
Expense_init_zero_accepted(name, category, amount, expense_id, t, h) ==
    IF amount < 0
    THEN Raise(ExpenseAmountError)
    ELSE Return([name |-> Strip(name),
                 category |-> Lower(Strip(category)),
                 amount |-> amount,
                 created_date |-> Timestamp(t),
                 expense_id |-> IF expense_id # <<>> THEN expense_id
                                ELSE Expense_generate_id(t, h)])

\* Expense.__init__; expense_id <<>> is None or "", which `or` treats alike;
\* t is datetime.now(), h is hash(self.name)
Expense_init(name, category, amount, expense_id, t, h) ==
    IF amount <= 0
    THEN Raise(ExpenseAmountError)
    ELSE Return([name |-> Strip(name),
                 category |-> Lower(Strip(category)),
                 amount |-> amount,
                 created_date |-> Timestamp(t),
                 expense_id |-> IF expense_id # <<>> THEN expense_id
                                ELSE Expense_generate_id(t, h)])

Expense_to_dict(e) ==
    [id |-> e.expense_id, name |-> e.name, category |-> e.category,
     amount |-> e.amount, created_date |-> e.created_date]

ExpenseKeys == {"name", "category", "amount"}

Expense_from_dict(data, t, h) ==
    IF ~(ExpenseKeys \subseteq DOMAIN data)
    THEN Raise(KeyError)
    ELSE LET r == Expense_init(data.name, data.category, data.amount,
                               Get(data, "id", <<>>), t, h)
         IN IF r.err # "" THEN r
            ELSE LET e == CHOOSE x \in r.obj : TRUE
                 IN Return([e EXCEPT !.created_date =
                                Get(data, "created_date", e.created_date)])

----------------------------------------------------------------------------
(* classes/budget.py *)

\* BudgetPeriod: the members and their values
PeriodValue ==
    [DAILY |-> <<"d", "a", "i", "l", "y">>,
     WEEKLY |-> <<"w", "e", "e", "k", "l", "y">>,
     MONTHLY |-> <<"m", "o", "n", "t", "h", "l", "y">>,
     YEARLY |-> <<"y", "e", "a", "r", "l", "y">>]

\* BudgetPeriod(value): the member with that value, None (ValueError) without one
BudgetPeriod(value) == {m \in DOMAIN PeriodValue : PeriodValue[m] = value}

\* Budget._generate_id
Budget_generate_id(t, h) == <<"budget_">> \o Timestamp(t) \o <<"_">> \o Pad4(h % IdModulus)

\* Budget.__init__ without period.lower(): the period is matched case-sensitively
Budget_init_case_sensitive(category, amount, period, budget_id, is_active, t, h) ==
    IF amount <= 0
    THEN Raise(BudgetAmountError)
    ELSE IF BudgetPeriod(period) = {}
    THEN Raise(InvalidPeriodError)
    ELSE Return([period |-> CHOOSE m \in BudgetPeriod(period) : TRUE,
                 category |-> Lower(Strip(category)),
                 amount |-> amount,
                 created_date |-> Timestamp(t),
                 budget_id |-> IF budget_id # <<>> THEN budget_id
                               ELSE Budget_generate_id(t, h),
                 is_active |-> is_active])

\* Budget.__init__
Budget_init(category, amount, period, budget_id, is_active, t, h) ==
    IF amount <= 0
    THEN Raise(BudgetAmountError)
    ELSE IF BudgetPeriod(Lower(period)) = {}
    THEN Raise(InvalidPeriodError)
    ELSE Return([period |-> CHOOSE m \in BudgetPeriod(Lower(period)) : TRUE,
                 category |-> Lower(Strip(category)),
                 amount |-> amount,
                 created_date |-> Timestamp(t),
                 budget_id |-> IF budget_id # <<>> THEN budget_id
                               ELSE Budget_generate_id(t, h),
                 is_active |-> is_active])

Budget_to_dict(b) ==
    [id |-> b.budget_id, category |-> b.category, amount |-> b.amount,
     period |-> PeriodValue[b.period], created_date |-> b.created_date,
     is_active |-> b.is_active]

BudgetKeys == {"category", "amount", "period"}

\* Budget.from_dict that does not hand is_active to the constructor
Budget_from_dict_default_active(data, t, h) ==
    IF ~(BudgetKeys \subseteq DOMAIN data)
    THEN Raise(KeyError)
    ELSE LET r == Budget_init(data.category, data.amount, data.period,
                              Get(data, "id", <<>>), TRUE, t, h)
         IN IF r.err # "" THEN r
            ELSE LET b == CHOOSE x \in r.obj : TRUE
                 IN Return([b EXCEPT !.created_date =
                                Get(data, "created_date", b.created_date)])

Budget_from_dict(data, t, h) ==
    IF ~(BudgetKeys \subseteq DOMAIN data)
    THEN Raise(KeyError)
    ELSE LET r == Budget_init(data.category, data.amount, data.period,
                              Get(data, "id", <<>>), Get(data, "is_active", TRUE), t, h)
         IN IF r.err # "" THEN r
            ELSE LET b == CHOOSE x \in r.obj : TRUE
                 IN Return([b EXCEPT !.created_date =
                                Get(data, "created_date", b.created_date)])

\* datetime: a date is [year, month, day]; the time of day, which replace() and
\* timedelta(days=...) carry along unchanged, is left out
IsLeap(year) == (year % 4 = 0 /\ year % 100 # 0) \/ year % 400 = 0

DaysInMonth(year, month) ==
    IF month = 2 THEN (IF IsLeap(year) THEN 29 ELSE 28)
    ELSE IF month \in {4, 6, 9, 11} THEN 30
    ELSE 31

DaysBeforeYear(year) ==
    LET y == year - 1 IN y * 365 + (y \div 4) - (y \div 100) + (y \div 400)

RECURSIVE DaysBeforeMonth(_, _)
DaysBeforeMonth(year, month) ==
    IF month = 1 THEN 0
    ELSE DaysBeforeMonth(year, month - 1) + DaysInMonth(year, month - 1)

\* date.toordinal(), on which the difference of two dates rests
ToOrdinal(d) == DaysBeforeYear(d.year) + DaysBeforeMonth(d.year, d.month) + d.day

\* datetime.weekday(): Monday is 0
Weekday(d) == (ToOrdinal(d) + 6) % 7

\* Budget.get_remaining_days_in_period without the + 1
get_remaining_days_in_period_exclusive(b, now) ==
    IF b.period = "DAILY" THEN 1
    ELSE IF b.period = "WEEKLY" THEN 7 - Weekday(now)
    ELSE IF b.period = "MONTHLY"
    THEN LET next_month == IF now.month = 12
                           THEN [year |-> now.year + 1, month |-> 1, day |-> 1]
                           ELSE [year |-> now.year, month |-> now.month + 1, day |-> 1]
             last_day == ToOrdinal(next_month) - 1
         IN last_day - ToOrdinal(now)
    ELSE IF b.period = "YEARLY"
    THEN LET next_year == [year |-> now.year + 1, month |-> 1, day |-> 1]
             last_day == ToOrdinal(next_year) - 1
         IN last_day - ToOrdinal(now)
    ELSE 1

\* Budget.get_remaining_days_in_period; now is datetime.now(), last_day is kept
\* as its ordinal
get_remaining_days_in_period(b, now) ==
    IF b.period = "DAILY" THEN 1
    ELSE IF b.period = "WEEKLY" THEN 7 - Weekday(now)
    ELSE IF b.period = "MONTHLY"
    THEN LET next_month == IF now.month = 12
                           THEN [year |-> now.year + 1, month |-> 1, day |-> 1]
                           ELSE [year |-> now.year, month |-> now.month + 1, day |-> 1]
             last_day == ToOrdinal(next_month) - 1
         IN (last_day - ToOrdinal(now)) + 1
    ELSE IF b.period = "YEARLY"
    THEN LET next_year == [year |-> now.year + 1, month |-> 1, day |-> 1]
             last_day == ToOrdinal(next_year) - 1
         IN (last_day - ToOrdinal(now)) + 1
    ELSE 1

\* Budget.calculate_remaining_budget
calculate_remaining_budget(b, spent_amount) ==
    IF b.amount - spent_amount > 0 THEN b.amount - spent_amount ELSE 0

\* Budget.calculate_usage_percentage without min(100.0, ...)
calculate_usage_percentage_uncapped(b, spent_amount) ==
    IF b.amount = 0 THEN [num |-> 0, den |-> 1]
    ELSE [num |-> spent_amount * 100, den |-> b.amount]

\* Budget.calculate_usage_percentage; the float result is kept as the exact
\* fraction num/den
calculate_usage_percentage(b, spent_amount) ==
    IF b.amount = 0 THEN [num |-> 0, den |-> 1]
    ELSE IF spent_amount * 100 >= 100 * b.amount THEN [num |-> 100, den |-> 1]
    ELSE [num |-> spent_amount * 100, den |-> b.amount]

\* percentage >= k
AtLeast(percentage, k) == percentage.num >= k * percentage.den

\* Budget.is_over_budget with the test spent_amount >= self.amount
is_over_budget_inclusive(b, spent_amount) == spent_amount >= b.amount

\* Budget.is_over_budget
is_over_budget(b, spent_amount) == spent_amount > b.amount

\* percentage > k
MoreThan(percentage, k) == percentage.num > k * percentage.den

\* Budget.get_status_message with exclusive thresholds
get_status_message_exclusive(b, spent_amount) ==
    LET percentage == calculate_usage_percentage(b, spent_amount)
        remaining == calculate_remaining_budget(b, spent_amount)
        tier == IF MoreThan(percentage, 100) \/ AtLeast(percentage, 100) THEN "BUDGET EXCEEDED"
                ELSE IF MoreThan(percentage, 90) THEN "Critical"
                ELSE IF MoreThan(percentage, 80) THEN "Warning"
                ELSE IF MoreThan(percentage, 50) THEN "Half used"
                ELSE "On track"
    IN [tier |-> tier, over_by |-> IF tier = "BUDGET EXCEEDED" THEN Abs(remaining) ELSE 0,
        percentage |-> percentage, remaining |-> remaining]

\* Budget.get_status_message: the message is kept as its wording (tier) and the
\* values interpolated into it, not as rendered digits
get_status_message(b, spent_amount) ==
    LET percentage == calculate_usage_percentage(b, spent_amount)
        remaining == calculate_remaining_budget(b, spent_amount)
    IN IF AtLeast(percentage, 100)
       THEN [tier |-> "BUDGET EXCEEDED", over_by |-> Abs(remaining),
             percentage |-> percentage, remaining |-> remaining]
       ELSE IF AtLeast(percentage, 90)
       THEN [tier |-> "Critical", over_by |-> 0,
             percentage |-> percentage, remaining |-> remaining]
       ELSE IF AtLeast(percentage, 80)
       THEN [tier |-> "Warning", over_by |-> 0,
             percentage |-> percentage, remaining |-> remaining]
       ELSE IF AtLeast(percentage, 50)
       THEN [tier |-> "Half used", over_by |-> 0,
             percentage |-> percentage, remaining |-> remaining]
       ELSE [tier |-> "On track", over_by |-> 0,
             percentage |-> percentage, remaining |-> remaining]

----------------------------------------------------------------------------
(* Inputs of the callers *)

NameInputs == {<<"a">>, <<" ", "a", " ">>, <<>>, <<" ">>, <<"a", "<CR>", "b">>}
CategoryInputs == {<<"f">>, <<"F", " ">>, <<"t">>, <<" ">>, <<>>}
AmountInputs == -1 .. MaxAmount
IdInputs == {<<>>, <<"x", "1">>, <<"x", "2">>}
Clock == 1 .. MaxClock
HashValues == 0 .. MaxHash

PeriodInputs ==
    {PeriodValue[m] : m \in DOMAIN PeriodValue}
    \cup {<<"D", "A", "I", "L", "Y">>, <<"W", "e", "e", "k", "l", "y">>,
          <<"m", "O", "n", "T", "h", "L", "y">>, <<"Y", "E", "A", "R", "L", "Y">>}
    \cup {<<>>, <<"m", "o", "n", "t", "h">>, <<" ", "m", "o", "n", "t", "h", "l", "y">>,
          <<"d", "a", "i", "l", "y", "y">>, <<"M", "O", "N", "T", "H", "L", "I">>}

\* the mappings given to Expense.from_dict: every key, or one key missing
ExpenseDictInputs ==
    LET full == [id : IdInputs, name : NameInputs, category : CategoryInputs,
                 amount : AmountInputs, created_date : {Timestamp(t) : t \in Clock}]
    IN full
       \cup {[k \in DOMAIN d \ {"id"} |-> d[k]] : d \in full}
       \cup {[k \in DOMAIN d \ {"created_date"} |-> d[k]] : d \in full}
       \cup {[k \in DOMAIN d \ {"amount"} |-> d[k]] : d \in full}

BudgetDictInputs ==
    LET full == [id : IdInputs, category : {<<"f">>, <<"F", " ">>, <<>>},
                 amount : AmountInputs, period : PeriodInputs,
                 created_date : {Timestamp(t) : t \in Clock}, is_active : BOOLEAN]
    IN full
       \cup {[k \in DOMAIN d \ {"is_active"} |-> d[k]] : d \in full}
       \cup {[k \in DOMAIN d \ {"period"} |-> d[k]] : d \in full}

----------------------------------------------------------------------------
(* The entity layer on its own: one construction, then its serialization     *)
(* round trip.                                                               *)

NoCall == [op |-> "none", args |-> <<>>, res |-> Raise("")]

NewExpense ==
    /\ entity.op = "none"
    /\ \E name \in NameInputs, category \in CategoryInputs, amount \in AmountInputs,
          expense_id \in IdInputs, t \in Clock, h \in HashValues :
          entity' = [op |-> "Expense",
                     args |-> [name |-> name, category |-> category, amount |-> amount,
                               id |-> expense_id],
                     res |-> Expense_init(name, category, amount, expense_id, t, h)]
    /\ UNCHANGED <<store_vars, status>>

NewBudget ==
    /\ entity.op = "none"
    /\ \E category \in CategoryInputs, amount \in AmountInputs, period \in PeriodInputs,
          budget_id \in IdInputs, is_active \in BOOLEAN, t \in Clock, h \in HashValues :
          entity' = [op |-> "Budget",
                     args |-> [category |-> category, amount |-> amount, period |-> period,
                               id |-> budget_id, is_active |-> is_active],
                     res |-> Budget_init(category, amount, period, budget_id, is_active, t, h)]
    /\ UNCHANGED <<store_vars, status>>

ExpenseFromDict ==
    /\ entity.op = "none"
    /\ \E data \in ExpenseDictInputs, t \in Clock, h \in HashValues :
          entity' = [op |-> "Expense.from_dict", args |-> data,
                     res |-> Expense_from_dict(data, t, h)]
    /\ UNCHANGED <<store_vars, status>>

BudgetFromDict ==
    /\ entity.op = "none"
    /\ \E data \in BudgetDictInputs, t \in Clock, h \in HashValues :
          entity' = [op |-> "Budget.from_dict", args |-> data,
                     res |-> Budget_from_dict(data, t, h)]
    /\ UNCHANGED <<store_vars, status>>

\* from_dict(to_dict(x)) of the entity x just made
ExpenseRoundTrip ==
    /\ entity.op \in {"Expense", "Expense.from_dict"}
    /\ \E x \in entity.res.obj, t \in Clock, h \in HashValues :
          entity' = [op |-> "Expense.roundtrip", args |-> Expense_to_dict(x),
                     res |-> Expense_from_dict(Expense_to_dict(x), t, h)]
    /\ UNCHANGED <<store_vars, status>>

BudgetRoundTrip ==
    /\ entity.op \in {"Budget", "Budget.from_dict"}
    /\ \E x \in entity.res.obj, t \in Clock, h \in HashValues :
          entity' = [op |-> "Budget.roundtrip", args |-> Budget_to_dict(x),
                     res |-> Budget_from_dict(Budget_to_dict(x), t, h)]
    /\ UNCHANGED <<store_vars, status>>

----------------------------------------------------------------------------
(* The status evaluator on its own: one get_status_message call on a budget. *)

MaxBudgetAmount == 10   \* budgets of amount 1..MaxBudgetAmount
MaxSpent == 12          \* spent_amount ranges over 0..MaxSpent

NoStatus == [op |-> "none"]

GetStatusMessage ==
    /\ status.op = "none"
    /\ \E amount \in 1 .. MaxBudgetAmount, spent \in 0 .. MaxSpent :
          \E b \in Budget_init(<<"f">>, amount, PeriodValue.MONTHLY, <<"b", "1">>,
                               TRUE, 1, 0).obj :
             status' = [op |-> "get_status_message", budget |-> b, spent |-> spent,
                        msg |-> get_status_message(b, spent)]
    /\ UNCHANGED <<store_vars, entity>>

\* what a caller reads off a budget for an amount spent: remaining amount,
\* usage, over-budget flag and status message
BudgetMetrics ==
    /\ status.op = "none"
    /\ \E amount \in 1 .. MaxBudgetAmount, spent \in 0 .. MaxSpent :
          \E b \in Budget_init(<<"f">>, amount, PeriodValue.MONTHLY, <<"b", "1">>,
                               TRUE, 1, 0).obj :
             status' = [op |-> "metrics", budget |-> b, spent |-> spent,
                        remaining |-> calculate_remaining_budget(b, spent),
                        percentage |-> calculate_usage_percentage(b, spent),
                        over |-> is_over_budget(b, spent),
                        msg |-> get_status_message(b, spent)]
    /\ UNCHANGED <<store_vars, entity>>

----------------------------------------------------------------------------
(* The period calculator on its own: one get_remaining_days_in_period call.  *)

MaxYearSpan == 1   \* the clock reads a day of 2023 .. 2023 + MaxYearSpan, of 2000 or of 2100

Years == (2023 .. (2023 + MaxYearSpan)) \cup {2000, 2100}

Dates ==
    {d \in [year : Years, month : 1 .. 12, day : 1 .. 31] :
        d.day <= DaysInMonth(d.year, d.month)}

GetRemainingDays ==
    /\ status.op = "none"
    /\ \E period \in DOMAIN PeriodValue, amount \in {1, MaxBudgetAmount}, now \in Dates :
          \E b \in Budget_init(<<"f">>, amount, PeriodValue[period], <<"b", "1">>,
                               TRUE, 1, 0).obj :
             status' = [op |-> "get_remaining_days_in_period", budget |-> b, now |-> now,
                        days |-> get_remaining_days_in_period(b, now)]
    /\ UNCHANGED <<store_vars, entity>>

----------------------------------------------------------------------------
(* classes/data_manager.py *)

ExpenseHeader == <<"ID", "Name", "Category", "Amount", "Created_Date">>
BudgetHeader == <<"ID", "Category", "Amount", "Period", "Created_Date", "Is_Active">>

\* open(path, "a", newline='') and csv.writer: the header row goes first into a
\* file that did not exist; a field is read back as it was written (quoting)
csv_append(file, header, row) ==
    [exists |-> TRUE,
     rows |-> (IF file.exists THEN file.rows ELSE <<header>>) \o <<row>>]

\* None as the value of a field: what csv.DictReader gives a field that a short
\* row has no cell for
NoneField == <<"<None>">>

\* the exceptions that `except (ValueError, KeyError)` in the load loops does not
\* catch; the `except Exception` around the loop does, and the loop ends
TypeError == "TypeError"
AttributeError == "AttributeError"
Uncaught == {TypeError, AttributeError}

\* open(path, "r") and csv.DictReader: the first row names the fields of the
\* others; a row shorter than the header has None for the fields it lacks
DictReader(file) ==
    LET header == file.rows[1]
        cell(r, j) == IF j \in DOMAIN r THEN UniversalNewlines(r[j]) ELSE NoneField
        dict(r) == [k \in {header[j] : j \in DOMAIN header} |->
                       cell(r, CHOOSE j \in DOMAIN header : header[j] = k)]
    IN [i \in 1 .. (Len(file.rows) - 1) |-> dict(file.rows[i + 1])]

\* DataManager.save_expense
save_expense(file, e) ==
    csv_append(file, ExpenseHeader,
               <<e.expense_id, e.name, e.category, FloatToStr(e.amount), e.created_date>>)

\* the body of load_expenses' loop: the outcome of building the Expense of a row.
\* float(None) is a TypeError; Expense.__init__ checks the amount and then calls
\* name.strip() and category.strip(), an AttributeError on None
ExpenseOfRow(row, t, h) ==
    IF ~({"Name", "Category", "Amount"} \subseteq DOMAIN row) THEN Raise(KeyError)
    ELSE IF row.Amount = NoneField THEN Raise(TypeError)
    ELSE IF StrToFloat(row.Amount) = {} THEN Raise("ValueError: could not convert")
    ELSE LET id == Get(row, "ID", NoneField)
             r == Expense_init(row.Name, row.Category,
                               CHOOSE a \in StrToFloat(row.Amount) : TRUE,
                               IF id = NoneField THEN <<>> ELSE id, t, h)
         IN IF r.obj = {} THEN r
            ELSE IF row.Name = NoneField \/ row.Category = NoneField
            THEN Raise(AttributeError)
            ELSE Return([(CHOOSE e \in r.obj : TRUE) EXCEPT
                            !.created_date = Get(row, "Created_Date", @)])

\* the loop of load_expenses: a row that raises ValueError or KeyError is
\* skipped, any other exception ends the loop with the expenses read so far
RECURSIVE ExpensesOfRows(_, _, _)
ExpensesOfRows(rows, t, h) ==
    IF rows = <<>> THEN <<>>
    ELSE LET r == ExpenseOfRow(Head(rows), t, h)
         IN IF r.err \in Uncaught THEN <<>>
            ELSE (IF r.obj = {} THEN <<>> ELSE <<CHOOSE x \in r.obj : TRUE>>)
                 \o ExpensesOfRows(Tail(rows), t, h)

\* DataManager.load_expenses
load_expenses(file, t, h) ==
    IF ~file.exists THEN <<>> ELSE ExpensesOfRows(DictReader(file), t, h)

\* the list comprehension of get_expenses_by_category
RECURSIVE ExpensesOfCategory(_, _)
ExpensesOfCategory(expenses, category) ==
    IF expenses = <<>> THEN <<>>
    ELSE (IF Lower(Head(expenses).category) = Lower(category)
          THEN <<Head(expenses)>> ELSE <<>>)
         \o ExpensesOfCategory(Tail(expenses), category)

\* a filter that compares the category as given, without lower()
RECURSIVE ExpensesOfExactCategory(_, _)
ExpensesOfExactCategory(expenses, category) ==
    IF expenses = <<>> THEN <<>>
    ELSE (IF Head(expenses).category = category THEN <<Head(expenses)>> ELSE <<>>)
         \o ExpensesOfExactCategory(Tail(expenses), category)

get_expenses_by_category_case_sensitive(file, category, t, h) ==
    ExpensesOfExactCategory(load_expenses(file, t, h), category)

\* DataManager.get_expenses_by_category
get_expenses_by_category(file, category, t, h) ==
    ExpensesOfCategory(load_expenses(file, t, h), category)

\* sum(exp.amount for exp in expenses)
RECURSIVE SumAmounts(_)
SumAmounts(expenses) ==
    IF expenses = <<>> THEN 0 ELSE Head(expenses).amount + SumAmounts(Tail(expenses))

\* DataManager.get_total_spending; category is None ({}) or a string ({c}), and
\* `if category` is false for None and for the empty string
get_total_spending(file, category, t, h) ==
    IF \E c \in category : c # <<>>
    THEN SumAmounts(get_expenses_by_category(file, CHOOSE c \in category : TRUE, t, h))
    ELSE SumAmounts(load_expenses(file, t, h))

\* DataManager.save_budget
save_budget(file, b) ==
    csv_append(file, BudgetHeader,
               <<b.budget_id, b.category, FloatToStr(b.amount), PeriodValue[b.period],
                 b.created_date, BoolToStr(b.is_active)>>)

\* the body of load_budgets' loop: the outcome of building the Budget of a row.
\* The arguments are evaluated in order: float(None) is a TypeError, None.lower()
\* for Is_Active an AttributeError; Budget.__init__ checks the amount, then calls
\* period.lower() and category.lower()
BudgetOfRow(row, t, h) ==
    IF ~({"Category", "Amount", "Period"} \subseteq DOMAIN row) THEN Raise(KeyError)
    ELSE IF row.Amount = NoneField THEN Raise(TypeError)
    ELSE IF StrToFloat(row.Amount) = {} THEN Raise("ValueError: could not convert")
    ELSE LET id == Get(row, "ID", NoneField)
             active == Get(row, "Is_Active", <<"T", "r", "u", "e">>)
             amount == CHOOSE a \in StrToFloat(row.Amount) : TRUE
         IN IF active = NoneField THEN Raise(AttributeError)
            ELSE IF amount <= 0 THEN Raise(BudgetAmountError)
            ELSE IF row.Period = NoneField THEN Raise(AttributeError)
            ELSE LET r == Budget_init(row.Category, amount, row.Period,
                                      IF id = NoneField THEN <<>> ELSE id,
                                      Lower(active) = <<"t", "r", "u", "e">>, t, h)
                 IN IF r.obj = {} THEN r
                    ELSE IF row.Category = NoneField THEN Raise(AttributeError)
                    ELSE Return([(CHOOSE b \in r.obj : TRUE) EXCEPT
                                    !.created_date = Get(row, "Created_Date", @)])

\* the loop of load_budgets: a row that raises ValueError or KeyError is skipped,
\* any other exception ends the loop with the budgets read so far
RECURSIVE BudgetsOfRows(_, _, _)
BudgetsOfRows(rows, t, h) ==
    IF rows = <<>> THEN <<>>
    ELSE LET r == BudgetOfRow(Head(rows), t, h)
         IN IF r.err \in Uncaught THEN <<>>
            ELSE (IF r.obj = {} THEN <<>> ELSE <<CHOOSE x \in r.obj : TRUE>>)
                 \o BudgetsOfRows(Tail(rows), t, h)

\* DataManager.load_budgets
load_budgets(file, t, h) ==
    IF ~file.exists THEN <<>> ELSE BudgetsOfRows(DictReader(file), t, h)

\* the loop of get_budget_by_category
RECURSIVE FirstActive(_, _)
FirstActive(budgets, category) ==
    IF budgets = <<>> THEN {}
    ELSE IF Lower(Head(budgets).category) = Lower(category) /\ Head(budgets).is_active
    THEN {Head(budgets)}
    ELSE FirstActive(Tail(budgets), category)

\* a lookup that forgets the active flag
RECURSIVE FirstOfCategory(_, _)
FirstOfCategory(budgets, category) ==
    IF budgets = <<>> THEN {}
    ELSE IF Lower(Head(budgets).category) = Lower(category)
    THEN {Head(budgets)}
    ELSE FirstOfCategory(Tail(budgets), category)

get_budget_by_category_any(file, category, t, h) ==
    FirstOfCategory(load_budgets(file, t, h), category)

\* a lookup that prefers the most recently stored budget
RECURSIVE LastActive(_, _)
LastActive(budgets, category) ==
    IF budgets = <<>> THEN {}
    ELSE LET b == budgets[Len(budgets)]
         IN IF Lower(b.category) = Lower(category) /\ b.is_active
            THEN {b}
            ELSE LastActive(SubSeq(budgets, 1, Len(budgets) - 1), category)

get_budget_by_category_latest(file, category, t, h) ==
    LastActive(load_budgets(file, t, h), category)

\* DataManager.get_budget_by_category
get_budget_by_category(file, category, t, h) ==
    FirstActive(load_budgets(file, t, h), category)

\* DataManager.export_to_json; json.dump and json.load keep strings, numbers
\* and booleans as they are
export_expenses(file, t, h) ==
    LET expenses == load_expenses(file, t, h)
    IN [exists |-> TRUE, data |-> [i \in DOMAIN expenses |-> Expense_to_dict(expenses[i])]]

export_budgets(file, t, h) ==
    LET budgets == load_budgets(file, t, h)
    IN [exists |-> TRUE, data |-> [i \in DOMAIN budgets |-> Budget_to_dict(budgets[i])]]

\* DataManager.import_from_json, the expenses: a record that from_dict rejects
\* ends the import (ok = FALSE), the records before it stay saved
RECURSIVE import_expenses(_, _, _, _)
import_expenses(data, file, t, h) ==
    IF data = <<>> THEN [file |-> file, ok |-> TRUE]
    ELSE LET r == Expense_from_dict(Head(data), t, h)
         IN IF r.obj = {} THEN [file |-> file, ok |-> FALSE]
            ELSE import_expenses(Tail(data),
                                 save_expense(file, CHOOSE e \in r.obj : TRUE), t, h)

RECURSIVE import_budgets(_, _, _, _)
import_budgets(data, file, t, h) ==
    IF data = <<>> THEN [file |-> file, ok |-> TRUE]
    ELSE LET r == Budget_from_dict(Head(data), t, h)
         IN IF r.obj = {} THEN [file |-> file, ok |-> FALSE]
            ELSE import_budgets(Tail(data),
                                save_budget(file, CHOOSE b \in r.obj : TRUE), t, h)

----------------------------------------------------------------------------
(* The store and its callers *)

EmptyFile == [exists |-> FALSE, rows |-> <<>>]
EmptyJson == [exists |-> FALSE, data |-> <<>>]
NoQuery == [asked |-> FALSE, category |-> <<>>, result |-> {}]

\* the number of records of a CSV file
Records(file) == IF file.exists THEN Len(file.rows) - 1 ELSE 0

\* what the callers construct and save; they do so at clock reading 1, and every
\* export and import happen at reading MaxClock
StoreExpenseInputs ==
    {[name |-> <<" ", "a">>, category |-> <<"F", " ">>, amount |-> 1, id |-> <<"x", "1">>],
     [name |-> <<"a", "<CR>", "b">>, category |-> <<"f">>, amount |-> 2, id |-> <<"x", "2">>],
     [name |-> <<"b">>, category |-> <<"t">>, amount |-> 12, id |-> <<>>]}

StoreBudgetInputs ==
    {[category |-> <<"f">>, amount |-> 1, period |-> <<"m", "o", "n", "t", "h", "l", "y">>,
      id |-> <<"y", "1">>, is_active |-> TRUE],
     [category |-> <<"F", " ">>, amount |-> 20, period |-> <<"W", "E", "E", "K", "L", "Y">>,
      id |-> <<"y", "2">>, is_active |-> TRUE],
     [category |-> <<"f">>, amount |-> 3, period |-> <<"d", "a", "i", "l", "y">>,
      id |-> <<>>, is_active |-> FALSE],
     [category |-> <<"t">>, amount |-> 1, period |-> <<"y", "e", "a", "r", "l", "y">>,
      id |-> <<"y", "1">>, is_active |-> TRUE]}

QueryInputs == {<<"f">>, <<"F">>, <<"t">>, <<" ", "f">>, <<"z">>}

SaveExpense ==
    /\ Records(expenses_file) < MaxRows
    /\ \E in \in StoreExpenseInputs :
          \E e \in Expense_init(in.name, in.category, in.amount, in.id, 1, 0).obj :
             /\ expenses_file' = save_expense(expenses_file, e)
             /\ saved_expenses' = Append(saved_expenses, e)
    /\ found' = NoQuery
    /\ UNCHANGED <<budgets_file, expenses_json, budgets_json, saved_budgets, only_saved,
                   entity, status>>

SaveBudget ==
    /\ Records(budgets_file) < MaxRows
    /\ \E in \in StoreBudgetInputs :
          \E b \in Budget_init(in.category, in.amount, in.period, in.id, in.is_active,
                               1, 0).obj :
             /\ budgets_file' = save_budget(budgets_file, b)
             /\ saved_budgets' = Append(saved_budgets, b)
    /\ found' = NoQuery
    /\ UNCHANGED <<expenses_file, expenses_json, budgets_json, saved_expenses, only_saved,
                   entity, status>>

GetBudgetByCategory ==
    /\ \E category \in QueryInputs, t \in Clock, h \in HashValues :
          found' = [asked |-> TRUE, category |-> category,
                    result |-> get_budget_by_category(budgets_file, category, t, h)]
    /\ UNCHANGED <<expenses_file, budgets_file, expenses_json, budgets_json,
                   saved_expenses, saved_budgets, only_saved, entity, status>>

SpendingQueries == QueryInputs \cup {<<>>}

GetExpensesByCategory ==
    /\ \E category \in SpendingQueries, t \in Clock, h \in HashValues :
          found' = [asked |-> TRUE, category |-> category,
                    expenses |-> get_expenses_by_category(expenses_file, category, t, h)]
    /\ UNCHANGED <<expenses_file, budgets_file, expenses_json, budgets_json,
                   saved_expenses, saved_budgets, only_saved, entity, status>>

GetTotalSpending ==
    /\ \E category \in {{}} \cup {{c} : c \in SpendingQueries}, t \in Clock, h \in HashValues :
          found' = [asked |-> TRUE, category |-> category,
                    total |-> get_total_spending(expenses_file, category, t, h)]
    /\ UNCHANGED <<expenses_file, budgets_file, expenses_json, budgets_json,
                   saved_expenses, saved_budgets, only_saved, entity, status>>

ExportToJson ==
    /\ expenses_json' = export_expenses(expenses_file, MaxClock, MaxHash)
    /\ budgets_json' = export_budgets(budgets_file, MaxClock, MaxHash)
    /\ found' = NoQuery
    /\ UNCHANGED <<expenses_file, budgets_file, saved_expenses, saved_budgets, only_saved,
                   entity, status>>

ImportFromJson ==
    /\ Records(expenses_file) + Len(expenses_json.data) <= MaxRows
    /\ Records(budgets_file) + Len(budgets_json.data) <= MaxRows
    /\ LET ie == IF expenses_json.exists
                 THEN import_expenses(expenses_json.data, expenses_file, MaxClock, MaxHash)
                 ELSE [file |-> expenses_file, ok |-> TRUE]
           ib == IF ie.ok /\ budgets_json.exists
                 THEN import_budgets(budgets_json.data, budgets_file, MaxClock, MaxHash)
                 ELSE [file |-> budgets_file, ok |-> ie.ok]
       IN /\ expenses_file' = ie.file
          /\ budgets_file' = ib.file
    /\ only_saved' = FALSE
    /\ found' = NoQuery
    /\ UNCHANGED <<expenses_json, budgets_json, saved_expenses, saved_budgets,
                   entity, status>>

ClearAllData ==
    /\ expenses_file' = EmptyFile
    /\ budgets_file' = EmptyFile
    /\ expenses_json' = EmptyJson
    /\ budgets_json' = EmptyJson
    /\ saved_expenses' = <<>>
    /\ saved_budgets' = <<>>
    /\ only_saved' = TRUE
    /\ found' = NoQuery
    /\ UNCHANGED <<entity, status>>

\* records found in the CSV files that this program did not write (another
\* program, an editor): well-formed ones and the bad ones of a bulk load
Daily == <<"d", "a", "i", "l", "y">>
ExpenseRowInputs ==
    {<<<<"e", "1">>, <<"a">>, <<"f">>, FloatToStr(1), Timestamp(1)>>,
     <<<<"e", "2">>, <<"b">>, <<"t">>, FloatToStr(2), Timestamp(1)>>,
     <<<<"e", "3">>, <<"a">>, <<"f">>, FloatToStr(0), Timestamp(1)>>,
     <<<<"e", "4">>, <<"a">>, <<"f">>, <<"a", "b", "c">>, Timestamp(1)>>,
     <<<<"e", "5">>, <<"a">>, <<"f">>, FloatToStr(1)>>,
     <<<<"e", "6">>, <<"a">>, <<"f">>>>}

BudgetRowInputs ==
    {<<<<"b", "1">>, <<"f">>, FloatToStr(1), Daily, Timestamp(1), BoolToStr(TRUE)>>,
     <<<<"b", "2">>, <<"t">>, FloatToStr(2), Daily, Timestamp(1), BoolToStr(FALSE)>>,
     <<<<"b", "3">>, <<"f">>, FloatToStr(-1), Daily, Timestamp(1), BoolToStr(TRUE)>>,
     <<<<"b", "4">>, <<"f">>, FloatToStr(1), <<"d", "a", "y">>, Timestamp(1), BoolToStr(TRUE)>>,
     <<<<"b", "5">>, <<"f">>, FloatToStr(1), Daily, Timestamp(1)>>,
     <<<<"b", "6">>, <<"f">>>>}

\* a record arrives in expenses.csv
AppendExpenseRow ==
    /\ Records(expenses_file) < MaxRows
    /\ \E row \in ExpenseRowInputs :
          expenses_file' = csv_append(expenses_file, ExpenseHeader, row)
    /\ only_saved' = FALSE
    /\ found' = NoQuery
    /\ UNCHANGED <<budgets_file, expenses_json, budgets_json, saved_expenses,
                   saved_budgets, entity, status>>

\* a record arrives in budgets.csv
AppendBudgetRow ==
    /\ Records(budgets_file) < MaxRows
    /\ \E row \in BudgetRowInputs :
          budgets_file' = csv_append(budgets_file, BudgetHeader, row)
    /\ only_saved' = FALSE
    /\ found' = NoQuery
    /\ UNCHANGED <<expenses_file, expenses_json, budgets_json, saved_expenses,
                   saved_budgets, entity, status>>

\* a call of load_expenses
LoadExpenses ==
    /\ \E t \in Clock, h \in HashValues :
          found' = [asked |-> TRUE, of |-> "expenses",
                    loaded |-> load_expenses(expenses_file, t, h)]
    /\ UNCHANGED <<expenses_file, budgets_file, expenses_json, budgets_json,
                   saved_expenses, saved_budgets, only_saved, entity, status>>

\* a call of load_budgets
LoadBudgets ==
    /\ \E t \in Clock, h \in HashValues :
          found' = [asked |-> TRUE, of |-> "budgets",
                    loaded |-> load_budgets(budgets_file, t, h)]
    /\ UNCHANGED <<expenses_file, budgets_file, expenses_json, budgets_json,
                   saved_expenses, saved_budgets, only_saved, entity, status>>

\* the records of the JSON files given to import_from_json: valid ones, one
\* with a non-positive amount, one with an invalid period
ExpenseJsonInputs ==
    {[id |-> <<"e", "1">>, name |-> <<"a">>, category |-> <<"f">>, amount |-> 1,
      created_date |-> Timestamp(1)],
     [id |-> <<"e", "2">>, name |-> <<"b">>, category |-> <<"t">>, amount |-> 2,
      created_date |-> Timestamp(1)],
     [id |-> <<"e", "3">>, name |-> <<"a">>, category |-> <<"f">>, amount |-> 0,
      created_date |-> Timestamp(1)]}

BudgetJsonInputs ==
    {[id |-> <<"b", "1">>, category |-> <<"f">>, amount |-> 1, period |-> Daily,
      created_date |-> Timestamp(1), is_active |-> TRUE],
     [id |-> <<"b", "2">>, category |-> <<"t">>, amount |-> 2, period |-> Daily,
      created_date |-> Timestamp(1), is_active |-> FALSE],
     [id |-> <<"b", "3">>, category |-> <<"f">>, amount |-> 1, period |-> <<"d", "a", "y">>,
      created_date |-> Timestamp(1), is_active |-> TRUE]}

\* the lists of at most MaxRows records
ListsOf(S) == UNION {[1 .. n -> S] : n \in 0 .. MaxRows}

\* expenses.json and budgets.json are put in the data directory, once
GivenJson ==
    /\ ~expenses_json.exists /\ ~budgets_json.exists
    /\ \E data \in ListsOf(ExpenseJsonInputs) :
          expenses_json' = [exists |-> TRUE, data |-> data]
    /\ \E data \in ListsOf(BudgetJsonInputs) :
          budgets_json' = [exists |-> TRUE, data |-> data]
    /\ found' = NoQuery
    /\ UNCHANGED <<expenses_file, budgets_file, saved_expenses, saved_budgets,
                   only_saved, entity, status>>

----------------------------------------------------------------------------
(* Specifications *)

Init ==
    /\ expenses_file = EmptyFile
    /\ budgets_file = EmptyFile
    /\ expenses_json = EmptyJson
    /\ budgets_json = EmptyJson
    /\ saved_expenses = <<>>
    /\ saved_budgets = <<>>
    /\ only_saved = TRUE
    /\ found = NoQuery
    /\ entity = NoCall
    /\ status = NoStatus

\* the store under its operations
Next ==
    \/ SaveExpense
    \/ SaveBudget
    \/ ExportToJson
    \/ ImportFromJson
    \/ ClearAllData

Spec == Init /\ [][Next]_vars

\* the budget lookup after any sequence of save_budget calls
NextBudgets ==
    \/ SaveBudget
    \/ GetBudgetByCategory

SpecBudgets == Init /\ [][NextBudgets]_vars

\* the aggregator after any sequence of save_expense calls
NextSpending ==
    \/ SaveExpense
    \/ GetExpensesByCategory
    \/ GetTotalSpending

SpecSpending == Init /\ [][NextSpending]_vars

\* bulk loads of files that hold records of any origin
NextLoad ==
    \/ AppendExpenseRow
    \/ AppendBudgetRow
    \/ LoadExpenses
    \/ LoadBudgets

SpecLoad == Init /\ [][NextLoad]_vars

\* bulk imports of given JSON files
NextImport ==
    \/ GivenJson
    \/ ImportFromJson

SpecImport == Init /\ [][NextImport]_vars

NextEntity ==
    \/ NewExpense
    \/ NewBudget
    \/ ExpenseFromDict
    \/ BudgetFromDict
    \/ ExpenseRoundTrip
    \/ BudgetRoundTrip

SpecEntity == Init /\ [][NextEntity]_vars

NextStatus ==
    \/ GetStatusMessage
    \/ BudgetMetrics

SpecStatus == Init /\ [][NextStatus]_vars

NextPeriod == GetRemainingDays

SpecPeriod == Init /\ [][NextPeriod]_vars

----------------------------------------------------------------------------
(* Properties of the entity layer (SpecEntity) *)

ConstructOps == {"Expense", "Budget", "Expense.from_dict", "Budget.from_dict"}
BudgetOps == {"Budget", "Budget.from_dict"}

\* the call was given every field its constructor needs
WellFormedCall ==
    /\ entity.op \in ConstructOps
    /\ entity.op = "Expense.from_dict" => ExpenseKeys \subseteq DOMAIN entity.args
    /\ entity.op = "Budget.from_dict" => BudgetKeys \subseteq DOMAIN entity.args

\* c is the letter lc, in lower or in upper case
IsCaseVariant(c, lc) ==
    \/ c = lc
    \/ \E i \in DOMAIN UpperChars : UpperChars[i] = c /\ LowerChars[i] = lc

SameIgnoringCase(s, canonical) ==
    /\ Len(s) = Len(canonical)
    /\ \A i \in DOMAIN s : IsCaseVariant(s[i], canonical[i])

CanonicalPeriods ==
    {<<"d", "a", "i", "l", "y">>, <<"w", "e", "e", "k", "l", "y">>,
     <<"m", "o", "n", "t", "h", "l", "y">>, <<"y", "e", "a", "r", "l", "y">>}

ValidPeriod(s) == \E c \in CanonicalPeriods : SameIgnoringCase(s, c)

\* C4: an amount <= 0 makes Expense and Budget construction, by the constructor
\* or by from_dict, fail with the amount's validation error and produce no
\* entity; an amount > 0 (with a valid period, for a Budget) makes it succeed.
C4_AmountValidated ==
    WellFormedCall =>
        /\ entity.args.amount <= 0 =>
              /\ entity.res.obj = {}
              /\ entity.res.err = IF entity.op \in BudgetOps THEN BudgetAmountError
                                  ELSE ExpenseAmountError
        /\ (/\ entity.args.amount > 0
            /\ entity.op \in BudgetOps => ValidPeriod(entity.args.period)) =>
              /\ entity.res.err = ""
              /\ entity.res.obj # {}
              /\ \A x \in entity.res.obj : x.amount = entity.args.amount

C4_Witness ==
    /\ entity.op = "Budget.from_dict"
    /\ BudgetKeys \subseteq DOMAIN entity.args
    /\ entity.args.amount = 0
    /\ entity.res.err = BudgetAmountError

\* C5: an Expense whose name or category is empty after trimming, and a Budget
\* whose category is empty after trimming, is rejected with a validation error,
\* so that every constructed entity has a non-empty category.
C5_EmptyFieldRejected ==
    entity.op \in {"Expense", "Budget"} =>
        /\ (\/ Strip(entity.args.category) = <<>>
            \/ entity.op = "Expense" /\ Strip(entity.args.name) = <<>>) =>
              entity.res.obj = {}
        /\ \A x \in entity.res.obj : x.category # <<>>

\* C6: for a positive amount, Budget construction succeeds exactly for the period
\* strings that are daily, weekly, monthly or yearly in some letter case, and
\* stores the canonical lower-case period; every other period string fails with
\* the invalid-period error and produces no Budget.
C6_PeriodValidated ==
    (WellFormedCall /\ entity.op \in BudgetOps /\ entity.args.amount > 0) =>
        IF ValidPeriod(entity.args.period)
        THEN /\ entity.res.obj # {}
             /\ \A x \in entity.res.obj :
                   /\ PeriodValue[x.period] \in CanonicalPeriods
                   /\ SameIgnoringCase(entity.args.period, PeriodValue[x.period])
        ELSE /\ entity.res.obj = {}
             /\ entity.res.err = InvalidPeriodError

C6_Witness ==
    /\ entity.op = "Budget"
    /\ entity.args.amount > 0
    /\ entity.args.period = <<"m", "O", "n", "T", "h", "L", "y">>
    /\ \E x \in entity.res.obj : x.period = "MONTHLY"

\* C7: to_dict(from_dict(to_dict(x))) = to_dict(x) for every valid Expense and
\* Budget x: identifier, creation timestamp, category, amount, period and active
\* flag (also when false) survive the round trip.
C7_RoundTrip ==
    /\ entity.op = "Expense.roundtrip" =>
          /\ entity.res.obj # {}
          /\ \A y \in entity.res.obj : Expense_to_dict(y) = entity.args
    /\ entity.op = "Budget.roundtrip" =>
          /\ entity.res.obj # {}
          /\ \A y \in entity.res.obj : Budget_to_dict(y) = entity.args

C7_Witness ==
    /\ entity.op = "Budget.roundtrip"
    /\ entity.args.is_active = FALSE
    /\ entity.args.created_date = Timestamp(MaxClock)
    /\ \E y \in entity.res.obj : y.is_active = FALSE

----------------------------------------------------------------------------
(* Properties of the status evaluator (SpecStatus) *)

\* C9: the exceeded message carries the overage spent - amount.
C9_OverageShown ==
    (status.op = "get_status_message" /\ status.msg.tier = "BUDGET EXCEEDED") =>
        status.msg.over_by = status.spent - status.budget.amount

\* the tier that the usage 100 * spent / amount selects, thresholds inclusive
TierOf(spent, amount) ==
    IF 100 * spent >= 100 * amount THEN "BUDGET EXCEEDED"
    ELSE IF 100 * spent >= 90 * amount THEN "Critical"
    ELSE IF 100 * spent >= 80 * amount THEN "Warning"
    ELSE IF 100 * spent >= 50 * amount THEN "Half used"
    ELSE "On track"

\* C10: get_status_message selects the tier by inclusive lower bounds tested
\* highest first: exceeded from 100, critical from 90, warning from 80, half-used
\* from 50, on-track below; usage exactly 50, 80, 90 and 100 are half-used,
\* warning, critical and exceeded.
C10_Tiers ==
    status.op = "get_status_message" =>
        LET spent == status.spent
            amount == status.budget.amount
        IN /\ status.msg.tier = TierOf(spent, amount)
           /\ 100 * spent = 50 * amount => status.msg.tier = "Half used"
           /\ 100 * spent = 80 * amount => status.msg.tier = "Warning"
           /\ 100 * spent = 90 * amount => status.msg.tier = "Critical"
           /\ 100 * spent = 100 * amount => status.msg.tier = "BUDGET EXCEEDED"

C10_Witness ==
    /\ status.op = "get_status_message"
    /\ 100 * status.spent = 90 * status.budget.amount
    /\ status.msg.tier = "Critical"

\* p <= q for two fractions of positive denominator
FractionLeq(p, q) == p.num * q.den <= q.num * p.den

\* C11: for a budget of amount > 0 and spent >= 0, calculate_remaining_budget is
\* max(0, amount - spent), calculate_usage_percentage is min(100, 100*spent/amount)
\* and is_over_budget is spent > amount; usage never decreases as spent grows and
\* is 100 from spent = amount on, remaining never increases and is never below 0.
C11_Metrics ==
    status.op = "metrics" =>
        LET b == status.budget
            spent == status.spent
            p == status.percentage
        IN /\ spent <= b.amount => status.remaining = b.amount - spent
           /\ spent >= b.amount => status.remaining = 0
           /\ status.remaining >= 0
           /\ spent < b.amount => p.num * b.amount = 100 * spent * p.den
           /\ spent >= b.amount => p.num = 100 * p.den
           /\ status.over <=> (spent > b.amount)
           /\ \A more \in spent .. MaxSpent :
                 /\ FractionLeq(p, calculate_usage_percentage(b, more))
                 /\ calculate_remaining_budget(b, more) <= status.remaining

C11_Witness ==
    /\ status.op = "metrics"
    /\ status.spent > status.budget.amount
    /\ status.remaining = 0
    /\ status.percentage = [num |-> 100, den |-> 1]
    /\ status.over

\* C16 as claimed: the status message reports the exceeded tier exactly when
\* is_over_budget is true, also at spent = amount.
C16_IndicatorsAgree ==
    status.op = "metrics" =>
        (status.msg.tier = "BUDGET EXCEEDED" <=> status.over)

\* C16, amended: the status message reports the exceeded tier exactly when
\* spent >= amount and is_over_budget is true exactly when spent > amount, so
\* the two agree for every spent other than amount, and at spent = amount the
\* message reports the exceeded tier while is_over_budget is false.
C16_AgreeButAtAmount ==
    status.op = "metrics" =>
        /\ status.msg.tier = "BUDGET EXCEEDED" <=> status.spent >= status.budget.amount
        /\ status.over <=> status.spent > status.budget.amount
        /\ status.spent # status.budget.amount =>
              (status.msg.tier = "BUDGET EXCEEDED" <=> status.over)
        /\ status.spent = status.budget.amount =>
              (status.msg.tier = "BUDGET EXCEEDED" /\ ~status.over)

C16_Witness ==
    /\ status.op = "metrics"
    /\ status.spent = status.budget.amount
    /\ status.msg.tier = "BUDGET EXCEEDED"
    /\ ~status.over

----------------------------------------------------------------------------
(* Properties of the period calculator (SpecPeriod) *)

Date(year, month, day) == [year |-> year, month |-> month, day |-> day]

\* the number of the day within its year, 1 on the first of January
DayOfYear(d) ==
    Cardinality({e \in [year : {d.year}, month : 1 .. 12, day : 1 .. 31] :
                    /\ e.day <= DaysInMonth(e.year, e.month)
                    /\ e.month < d.month \/ (e.month = d.month /\ e.day <= d.day)})

\* C12: get_remaining_days_in_period is a function of the period and the current
\* date: 1 for daily; 7 minus the weekday index (Monday 0) for weekly; the days
\* from the date through the last day of its month for monthly (1 on the last
\* day, the month's length on the first, 29 in a leap February, December
\* included); the days through the 31st of December for yearly (365 or 366 on
\* the first of January).
C12_RemainingDays ==
    status.op = "get_remaining_days_in_period" =>
        LET now == status.now
            period == status.budget.period
            length == DaysInMonth(now.year, now.month)
            yearLength == IF IsLeap(now.year) THEN 366 ELSE 365
        IN /\ period = "DAILY" => status.days = 1
           /\ period = "WEEKLY" =>
                 /\ status.days = 7 - Weekday(now)
                 /\ status.days \in 1 .. 7
                 /\ now = Date(2024, 1, 1) => status.days = 7
                 /\ now = Date(2023, 12, 31) => status.days = 1
           /\ period = "MONTHLY" =>
                 /\ status.days = length - now.day + 1
                 /\ now.day = length => status.days = 1
                 /\ now.day = 1 => status.days = length
                 /\ now = Date(2024, 2, 1) => status.days = 29
                 /\ now = Date(2100, 2, 1) => status.days = 28
                 /\ now = Date(2023, 12, 1) => status.days = 31
           /\ period = "YEARLY" =>
                 /\ status.days = yearLength - DayOfYear(now) + 1
                 /\ now = Date(2024, 1, 1) => status.days = 366
                 /\ now = Date(2023, 1, 1) => status.days = 365
                 /\ (now.month = 12 /\ now.day = 31) => status.days = 1

C12_Witness ==
    /\ status.op = "get_remaining_days_in_period"
    /\ status.budget.period = "MONTHLY"
    /\ status.now = Date(2024, 2, 1)
    /\ status.days = 29

----------------------------------------------------------------------------
(* Properties of the store (Spec) *)

StoredExpenses == load_expenses(expenses_file, MaxClock, MaxHash)
StoredBudgets == load_budgets(budgets_file, MaxClock, MaxHash)

\* C1: when the callers saved entities of pairwise distinct identifiers, the
\* expenses that load_expenses returns have pairwise distinct identifiers, and
\* so have the budgets that load_budgets returns.
C1_UniqueIds ==
    /\ (\A i, j \in DOMAIN saved_expenses :
           i # j => saved_expenses[i].expense_id # saved_expenses[j].expense_id)
       => \A i, j \in DOMAIN StoredExpenses :
             i # j => StoredExpenses[i].expense_id # StoredExpenses[j].expense_id
    /\ (\A i, j \in DOMAIN saved_budgets :
           i # j => saved_budgets[i].budget_id # saved_budgets[j].budget_id)
       => \A i, j \in DOMAIN StoredBudgets :
             i # j => StoredBudgets[i].budget_id # StoredBudgets[j].budget_id

\* C8: from the empty store, after save_expense and save_budget calls only,
\* load_expenses and load_budgets return exactly the saved entities, in the order
\* saved, with every field as it was saved.
C8_SaveLoad ==
    only_saved =>
        \A t \in Clock, h \in HashValues :
            /\ load_expenses(expenses_file, t, h) = saved_expenses
            /\ load_budgets(budgets_file, t, h) = saved_budgets

----------------------------------------------------------------------------
(* Properties of the budget lookup (SpecBudgets) *)

EqualIgnoringCase(a, b) ==
    /\ Len(a) = Len(b)
    /\ \A i \in DOMAIN a : \E lc \in {LowerChar(a[i])} : IsCaseVariant(b[i], lc)

\* the positions of the stored budgets that are active and of category c
ActiveMatches(c) ==
    {i \in DOMAIN StoredBudgets :
        EqualIgnoringCase(StoredBudgets[i].category, c) /\ StoredBudgets[i].is_active}

Least(S) == CHOOSE i \in S : \A j \in S : i <= j

\* a new active budget of the category asked for was stored last, after an older one
NewAfterOld ==
    /\ found.asked
    /\ Len(StoredBudgets) \in ActiveMatches(found.category)
    /\ \E i \in ActiveMatches(found.category) : i < Len(StoredBudgets)

\* C2 as claimed: with an active budget stored for a category and a new active
\* budget saved for it, get_budget_by_category returns the newly saved budget.
C2_NewestReturned ==
    NewAfterOld => found.result = {StoredBudgets[Len(StoredBudgets)]}

\* C2, amended: with an active budget stored for a category and a new active
\* budget saved for it, get_budget_by_category keeps returning the active budget
\* of that category that was stored first.
C2_OldestReturned ==
    NewAfterOld => found.result = {StoredBudgets[Least(ActiveMatches(found.category))]}

C2_Witness ==
    /\ NewAfterOld
    /\ found.result = {StoredBudgets[1]}
    /\ StoredBudgets[1] # StoredBudgets[Len(StoredBudgets)]

\* C3: get_budget_by_category(c) returns the first budget in storage order that
\* is active and whose category equals c case-insensitively, skipping inactive
\* records, and None when there is no such budget.
C3_FirstActiveMatch ==
    found.asked =>
        IF ActiveMatches(found.category) = {}
        THEN found.result = {}
        ELSE found.result = {StoredBudgets[Least(ActiveMatches(found.category))]}

C3_Witness ==
    /\ found.asked
    /\ found.category = <<"F">>
    /\ Len(StoredBudgets) >= 2
    /\ ~StoredBudgets[1].is_active
    /\ StoredBudgets[1].category = <<"f">>
    /\ found.result = {StoredBudgets[2]}

----------------------------------------------------------------------------
(* Properties of the aggregator (SpecSpending) *)

\* the positions of the stored expenses whose category is c, letter case aside
CategoryMatches(c) ==
    {i \in DOMAIN StoredExpenses : EqualIgnoringCase(StoredExpenses[i].category, c)}

\* the sum of the amounts of the stored expenses at the positions S
RECURSIVE AmountAt(_)
AmountAt(S) ==
    IF S = {} THEN 0
    ELSE LET i == CHOOSE j \in S : TRUE
         IN StoredExpenses[i].amount + AmountAt(S \ {i})

\* the stored expenses at the positions S, in storage order
Selected(S) ==
    [k \in 1 .. Cardinality(S) |->
        StoredExpenses[CHOOSE i \in S : Cardinality({j \in S : j <= i}) = k]]

TotalAsked == found.asked /\ "total" \in DOMAIN found
ExpensesAsked == found.asked /\ "expenses" \in DOMAIN found

\* C13 as claimed: get_total_spending(c) is the sum of the amounts of exactly
\* the expenses whose category equals c case-insensitively, get_total_spending()
\* is the sum over all expenses, both are 0 for an empty store, and
\* get_expenses_by_category(c) returns the matching expenses in their order.
C13_Totals ==
    /\ TotalAsked =>
          /\ found.category = {} => found.total = AmountAt(DOMAIN StoredExpenses)
          /\ \A c \in found.category : found.total = AmountAt(CategoryMatches(c))
          /\ StoredExpenses = <<>> => found.total = 0
    /\ ExpensesAsked => found.expenses = Selected(CategoryMatches(found.category))

\* C13, amended: as claimed for every non-empty c; get_total_spending with no
\* filter or with the empty string as filter is the sum over all expenses.
C13_TotalsOfNonEmptyFilter ==
    /\ TotalAsked =>
          /\ (found.category = {} \/ found.category = {<<>>}) =>
                found.total = AmountAt(DOMAIN StoredExpenses)
          /\ \A c \in found.category :
                c # <<>> => found.total = AmountAt(CategoryMatches(c))
          /\ StoredExpenses = <<>> => found.total = 0
    /\ ExpensesAsked => found.expenses = Selected(CategoryMatches(found.category))

C13_Witness ==
    /\ TotalAsked
    /\ found.category = {<<"F">>}
    /\ Len(StoredExpenses) = 2
    /\ Cardinality(CategoryMatches(<<"F">>)) = 1
    /\ found.total = AmountAt(CategoryMatches(<<"F">>))
    /\ found.total < AmountAt(DOMAIN StoredExpenses)

----------------------------------------------------------------------------
(* Bulk load (SpecLoad) *)

\* a well-formed record of expenses.csv: every field present, the amount a
\* positive number
GoodExpenseRow(r) ==
    /\ Len(r) = Len(ExpenseHeader)
    /\ StrToFloat(r[4]) # {}
    /\ \A a \in StrToFloat(r[4]) : a > 0

\* a well-formed record of budgets.csv: every field present, the amount a
\* positive number, the period one of the four
GoodBudgetRow(r) ==
    /\ Len(r) = Len(BudgetHeader)
    /\ StrToFloat(r[3]) # {}
    /\ \A a \in StrToFloat(r[3]) : a > 0
    /\ BudgetPeriod(Lower(r[4])) # {}

IdOf(x) == IF "expense_id" \in DOMAIN x THEN x.expense_id ELSE x.budget_id
IdsOf(seq) == [k \in DOMAIN seq |-> IdOf(seq[k])]
RowIds(rows) == [k \in DOMAIN rows |-> rows[k][1]]
RecordRows(file) == IF file.exists THEN Tail(file.rows) ELSE <<>>
LoadAsked == found.asked /\ "loaded" \in DOMAIN found

\* C14: a bulk load returns exactly the well-formed stored records, in storage
\* order: every bad record (non-positive or unparsable amount, invalid period,
\* missing field) is skipped and every other record is still returned
C14_BadRecordsSkipped ==
    LoadAsked =>
        IdsOf(found.loaded) =
            IF found.of = "expenses"
            THEN RowIds(SelectSeq(RecordRows(expenses_file), GoodExpenseRow))
            ELSE RowIds(SelectSeq(RecordRows(budgets_file), GoodBudgetRow))

----------------------------------------------------------------------------
(* Bulk import (SpecImport) *)

\* a record that Expense.from_dict / Budget.from_dict must accept
GoodExpenseRecord(d) == d.amount > 0
GoodBudgetRecord(d) == d.amount > 0 /\ BudgetPeriod(Lower(d.period)) # {}

RecordIds(data) == [k \in DOMAIN data |-> data[k].id]
BadRecords ==
    Len(expenses_json.data) - Len(SelectSeq(expenses_json.data, GoodExpenseRecord))
    + Len(budgets_json.data) - Len(SelectSeq(budgets_json.data, GoodBudgetRecord))

\* C15: when the given JSON data holds a single bad record among valid ones, an
\* import appends to the store exactly the other expense and budget records
C15_BadRecordSkipped ==
    [][(ImportFromJson /\ BadRecords = 1) =>
          /\ RowIds(RecordRows(expenses_file')) =
                RowIds(RecordRows(expenses_file))
                \o RecordIds(SelectSeq(expenses_json.data, GoodExpenseRecord))
          /\ RowIds(RecordRows(budgets_file')) =
                RowIds(RecordRows(budgets_file))
                \o RecordIds(SelectSeq(budgets_json.data, GoodBudgetRecord))]_vars

=============================================================================
